---- MODULE Spec2Model ----
(***************************************************************************)
(* A model of download.py: the incremental download-and-cache loop of      *)
(* main(), the fan-out of one ranking response into per-district cache     *)
(* files (download_ranking_properties) and the compilation of summary.csv  *)
(* (generate_csv).                                                         *)
(*                                                                         *)
(* Strings that the program formats, concatenates or compares are          *)
(* sequences of code points ("AL" is <<65, 76>>), so that "{}-{}".format   *)
(* and Python's string order are computed, not assumed.  Strings that are  *)
(* only dictionary keys or messages are TLA+ strings.                      *)
(*                                                                         *)
(* The data directory data/<dataVersion>/ is the variable fs, a function   *)
(* from the paths of the files that exist to their JSON content;           *)
(* summary.csv is the variable csv_file.  One behaviour is a sequence of   *)
(* invocations of the program against the same directory: an invocation    *)
(* ends in "done" or "failed" and the next one starts from the cache the   *)
(* earlier ones left behind.                                               *)
(*                                                                         *)
(* A response of the API is an input.  The district list, a provider list  *)
(* and the status of every envelope are drawn when the request is issued.  *)
(* The entries of a ranking response are drawn one at a time, as the       *)
(* loops of download_ranking_properties reach them: the program reads the  *)
(* response once, front to back, so this is the same set of runs as        *)
(* drawing the whole response at the request.                              *)
(***************************************************************************)
EXTENDS Naturals, Sequences, FiniteSets, TLC

\* ------------------------------------------------------------------ bounds

\* Longest district list the API returns.
MaxDistricts == 2
\* Longest provider list the API returns.
MaxProviders == 1
\* Most entries in one bucket of a ranking response.
MaxBucket == 1

\* --------------------------------------------------------------- constants

DISTRICTS_FILENAME == "districts.json"
PROVIDERS_FILENAME_PATTERN == "providers-{}.json"
STATS_FILENAME_PATTERN == "stats-{}-{}.json"
RANKING_PROPERTIES_FILENAME_PATTERN == "ranking-properties-{}.json"

RANKING_PROPERTIES_JSON ==
    << "wirelineProviderEquals0",
       "wirelineProviderGreaterThan1",
       "wirelineProviderGreaterThan2",
       "wirelineProviderGreaterThan3",
       "wirelineProviderGreaterThan4",
       "wirelineProviderGreaterThan5",
       "wirelineProviderGreaterThan6",
       "wirelineProviderGreaterThan7",
       "wirelineProviderGreaterThan8" >>

\* The names of the four buckets of a ranking response, in the order the
\* program walks them.
RESULT_LISTS == << "FirstTen", "myArea", "LastTen", "All" >>

\* ------------------------------------------------------------------ inputs

\* "AL", "TX" and "-" as code points.
AL == << 65, 76 >>
TX == << 84, 88 >>
Dash == << 45 >>

\* The districts the API knows, AL-2, AL-10 and TX-5: two in one state, whose
\* names order differently as strings and as numbers, and one in another.
DistrictUniverse ==
    { [stateFips |-> "01", geographyId |-> "0102",
       stateAbbreviation |-> AL, geographyName |-> << 50 >>],
      [stateFips |-> "01", geographyId |-> "0110",
       stateAbbreviation |-> AL, geographyName |-> << 49, 48 >>],
      [stateFips |-> "48", geographyId |-> "4805",
       stateAbbreviation |-> TX, geographyName |-> << 53 >>] }

\* holdingCompanyNumber of the providers the API knows.
ProviderUniverse == { << 55 >> }

SeqsUpTo(S, n) == UNION { [1..m -> S] : m \in 0..n }

\* Results of the district-list endpoint.
DistrictLists == SeqsUpTo(DistrictUniverse, MaxDistricts)

\* Results of the provider-list endpoint.
ProviderLists ==
    { [allProviders |-> [n \in DOMAIN s |-> [holdingCompanyNumber |-> s[n]]]] :
        s \in SeqsUpTo(ProviderUniverse, MaxProviders) }

\* Results of the provider-stats endpoint (never read back).
StatsResults == { [recordCount |-> 1] }

CounterIndex(field) ==
    CHOOSE n \in DOMAIN RANKING_PROPERTIES_JSON : RANKING_PROPERTIES_JSON[n] = field

AllCounters == { RANKING_PROPERTIES_JSON[n] : n \in DOMAIN RANKING_PROPERTIES_JSON }

\* One entry of a bucket: the district it is about and the counters it
\* carries (counter n holds base + n).
RankingEntry(d, base, fields) ==
    [f \in {"stateFips", "geographyName"} \cup fields |->
        IF f = "stateFips" THEN d.stateFips
        ELSE IF f = "geographyName" THEN d.geographyName
        ELSE base + CounterIndex(f)]

\* The entries a ranking response may hold: for every district one with all
\* the counters and one, with other values, that lacks the last counter.
RankingEntries ==
    { RankingEntry(d, 10, AllCounters) : d \in DistrictUniverse }
    \cup { RankingEntry(d, 20, AllCounters \ {"wirelineProviderGreaterThan8"}) :
             d \in DistrictUniverse }

\* ------------------------------------------------------------------- state

VARIABLES
    fs,          \* the cache: path of every file that exists |-> its content
    csv_file,    \* the rows of summary.csv, << >> while it does not exist
    pc,          \* where the invocation stands
    args,        \* the parsed command line
    districts,   \* main's districts
    state_abbreviation_lookup,   \* main's stateFips -> stateAbbreviation
    i,           \* index of the district main's loop is at
    providers,   \* main's providers (parse_providers_list)
    j,           \* index of the provider the stats loop is at
    bucket,      \* index in RESULT_LISTS of the bucket being walked
    k,           \* entries of that bucket already processed
    rows,        \* generate_csv's sorted districts
    r,           \* index of the district generate_csv is at
    err,         \* the exception that ended the invocation
    net,         \* the request the latest step issued
    wrote,       \* the cache paths the latest step opened for writing
    first_mention,   \* ranking path |-> the first entry ever processed for it
    response,    \* the ranking response of this invocation's latest request
    fetched,     \* this invocation finished its fetch phase
    prev,        \* how the previous invocation went
    trace        \* when kept: the cache this invocation started from and
                 \* the requests it has issued, in order

vars == << fs, csv_file, pc, args, districts, state_abbreviation_lookup, i,
           providers, j, bucket, k, rows, r, err, net, wrote, first_mention,
           response, fetched, prev, trace >>

\* ----------------------------------------------------------------- helpers

\* "{}-{}".format(state_abbr, district_number)
district_name(state_abbr, district_number) ==
    state_abbr \o Dash \o district_number

\* os.path.join(data_version_dir, PATTERN.format(...)): the pattern and the
\* text that fills it.  The two arguments of the stats pattern are joined by
\* the pattern's own "-".
districts_path == [pattern |-> DISTRICTS_FILENAME, arg |-> << >>]

providers_path(name) == [pattern |-> PROVIDERS_FILENAME_PATTERN, arg |-> name]

stats_path(name, provider_id) ==
    [pattern |-> STATS_FILENAME_PATTERN, arg |-> name \o Dash \o provider_id]

ranking_properties_path(name) ==
    [pattern |-> RANKING_PROPERTIES_FILENAME_PATTERN, arg |-> name]

\* os.path.isfile(path)
isfile(f, path) == path \in DOMAIN f

\* with open(path, "w") as f: json.dump(content, f)
dump(f, path, content) ==
    [q \in DOMAIN f \cup {path} |-> IF q = path THEN content ELSE f[q]]

\* parse_districts
parse_districts(f) == f[districts_path]

\* parse_providers_list
parse_providers_list(f, path) == f[path].allProviders

\* The loop that fills state_abbreviation_lookup: a later district of the
\* list overwrites the abbreviation an earlier one set for the same stateFips.
build_lookup(ds) ==
    [fips \in { ds[n].stateFips : n \in DOMAIN ds } |->
        LET last == CHOOSE n \in DOMAIN ds :
                        /\ ds[n].stateFips = fips
                        /\ \A m \in DOMAIN ds : ds[m].stateFips = fips => m <= n
        IN  ds[last].stateAbbreviation]

\* The name main and generate_csv give a district of the list.
name_of(d) == district_name(d.stateAbbreviation, d.geographyName)

\* A changed str_less: the shorter string first, as for numbers without
\* leading zeros.
RECURSIVE str_less_by_length(_, _)
str_less_by_length(a, b) ==
    IF Len(a) # Len(b) THEN Len(a) < Len(b)
    ELSE IF a = << >> THEN FALSE
    ELSE IF a[1] # b[1] THEN a[1] < b[1]
    ELSE str_less_by_length(Tail(a), Tail(b))

\* Python's < on str: by code point, a proper prefix first.
RECURSIVE str_less(_, _)
str_less(a, b) ==
    IF b = << >> THEN FALSE
    ELSE IF a = << >> THEN TRUE
    ELSE IF a[1] # b[1] THEN a[1] < b[1]
    ELSE str_less(Tail(a), Tail(b))

\* district_sort_key
district_sort_key(d) == << d.stateAbbreviation, d.geographyName >>

\* Python's < on the 2-tuples district_sort_key returns.
key_less(x, y) ==
    IF x[1] # y[1] THEN str_less(x[1], y[1]) ELSE str_less(x[2], y[2])

\* sorted(districts, key=district_sort_key): a stable sort; an element goes
\* behind every element already placed whose key is not greater.
RECURSIVE insert_sorted(_, _)
insert_sorted(d, s) ==
    IF s = << >> THEN << d >>
    ELSE IF key_less(district_sort_key(d), district_sort_key(s[1]))
         THEN << d >> \o s
         ELSE << s[1] >> \o insert_sorted(d, Tail(s))

RECURSIVE sorted(_)
sorted(ds) ==
    IF ds = << >> THEN << >>
    ELSE insert_sorted(ds[Len(ds)], sorted(SubSeq(ds, 1, Len(ds) - 1)))

\* csv.DictWriter: the header, and a row_dict laid out in fieldnames order.
fieldnames == << "District" >> \o RANKING_PROPERTIES_JSON

writerow(row_dict) == [n \in DOMAIN fieldnames |-> row_dict[fieldnames[n]]]

\* A changed row_dict: every counter column takes the first counter.
row_dict_first_counter(name, properties) ==
    [f \in {"District"} \cup AllCounters |->
        IF f = "District" THEN name ELSE properties[RANKING_PROPERTIES_JSON[1]]]

\* row_dict of generate_csv for the properties read from a ranking file.
row_dict(name, properties) ==
    [f \in {"District"} \cup AllCounters |->
        IF f = "District" THEN name ELSE properties[f]]

\* Exceptions.
NoError == [type |-> "none", message |-> "", name |-> << >>]

Raised(type, message, name) == [type |-> type, message |-> message, name |-> name]

\* Requests.
NoRequest ==
    [endpoint |-> "none", path |-> districts_path, status |-> "none",
     cached |-> FALSE]

\* A request, the cache path it is to fill, the status of its response, and
\* whether that path was a file when the request was issued.
Request(endpoint, path, status, cached) ==
    [endpoint |-> endpoint, path |-> path, status |-> status, cached |-> cached]

\* What the invocation has seen of the response to its latest ranking
\* request: the district the request was for, whether an entry walked so far
\* resolved to that district, and whether the walk is under way or over.
NoResponse == [anchor |-> << >>, seen |-> FALSE, walk |-> "none"]

\* The status field of an envelope.
Statuses == { "OK", "Bad Request" }

NoPrev == [ran |-> FALSE, fetched |-> FALSE, providerStatistics |-> FALSE]

\* No trace is kept.
NoTrace == [on |-> FALSE, cache |-> {}, requests |-> << >>]

\* The trace of an invocation that starts from the cache f.
start_trace(f) ==
    IF trace.on THEN [on |-> TRUE, cache |-> DOMAIN f, requests |-> << >>]
    ELSE trace

Running == pc \notin { "idle", "done", "failed" }

\* ----------------------------------------------------------------- actions

Start(t) ==
    /\ trace = t
    /\ fs = << >>
    /\ csv_file = << >>
    /\ pc = "idle"
    /\ args = [providerStatistics |-> FALSE]
    /\ districts = << >>
    /\ state_abbreviation_lookup = << >>
    /\ i = 1
    /\ providers = << >>
    /\ j = 1
    /\ bucket = 1
    /\ k = 0
    /\ rows = << >>
    /\ r = 1
    /\ err = NoError
    /\ net = NoRequest
    /\ wrote = {}
    /\ first_mention = << >>
    /\ response = NoResponse
    /\ fetched = FALSE
    /\ prev = NoPrev

\* The data directory does not exist yet and nothing has run.
Init == Start(NoTrace)

\* The same, and a trace is kept of every invocation.
InitTrace == Start([NoTrace EXCEPT !.on = TRUE])

\* A changed raise: the exception is caught and recorded, and the program
\* carries on where it was.
raise_caught(e) ==
    /\ pc' = pc
    /\ err' = e

\* An uncaught exception ends the invocation.
raise(e) ==
    /\ pc' = "failed"
    /\ err' = e

\* requests.get(url) and resp.json()
get(endpoint, path, status) ==
    /\ net' = Request(endpoint, path, status, isfile(fs, path))
    /\ trace' = IF trace.on
                THEN [trace EXCEPT !.requests =
                        Append(@, [endpoint |-> endpoint, path |-> path,
                                   index |-> IF pc = "main" THEN 0 ELSE i])]
                ELSE trace

NoGet ==
    /\ net' = NoRequest
    /\ trace' = trace

\* The head of main's "for district in districts": the district at index n,
\* or generate_csv when the list is exhausted.
for_district(ds, n) ==
    /\ i' = n
    /\ IF n > Len(ds)
       THEN pc' = "generate_csv" /\ fetched' = TRUE
       ELSE pc' = "district" /\ fetched' = fetched

\* The head of "for provider in providers".
for_provider(ps, n) ==
    /\ j' = n
    /\ pc' = IF n > Len(ps) THEN "ranking" ELSE "stats"

\* The program is invoked: python3 download.py [--providerStatistics].
Invoke(providerStatistics) ==
    /\ ~Running
    /\ prev' = IF pc = "idle" THEN NoPrev
               ELSE [ran |-> TRUE, fetched |-> fetched,
                     providerStatistics |-> args.providerStatistics]
    /\ args' = [providerStatistics |-> providerStatistics]
    /\ pc' = "main"
    /\ districts' = << >>
    /\ state_abbreviation_lookup' = << >>
    /\ i' = 1
    /\ providers' = << >>
    /\ j' = 1
    /\ bucket' = 1
    /\ k' = 0
    /\ rows' = << >>
    /\ r' = 1
    /\ err' = NoError
    /\ net' = NoRequest
    /\ trace' = start_trace(fs)
    /\ wrote' = {}
    /\ response' = NoResponse
    /\ fetched' = FALSE
    /\ UNCHANGED << fs, csv_file, first_mention >>

\* download_districts: the request, and on status OK the Results written to
\* file_path; any other status raises.
download_districts(file_path, status, results) ==
    /\ get("geography/congdistrict", file_path, status)
    /\ IF status = "OK"
       THEN fs' = dump(fs, file_path, results) /\ wrote' = {file_path}
       ELSE /\ raise(Raised("Exception",
                            "Downloading congressional districts failed", << >>))
            /\ fs' = fs
            /\ wrote' = {}

\* download_provider_list
download_provider_list(file_path, status, results) ==
    /\ get("provider/providers", file_path, status)
    /\ IF status = "OK"
       THEN fs' = dump(fs, file_path, results) /\ wrote' = {file_path}
       ELSE /\ raise(Raised("Exception", "Downloading provider list failed", << >>))
            /\ fs' = fs
            /\ wrote' = {}

\* A changed download_provider_stats: the Results are written before the
\* status is looked at.
download_provider_stats_unchecked(file_path, status, results) ==
    /\ get("provider/stats", file_path, status)
    /\ fs' = dump(fs, file_path, results)
    /\ wrote' = {file_path}
    /\ IF status = "OK"
       THEN TRUE
       ELSE raise(Raised("Exception",
                         "Downloading provider statistics failed", << >>))

\* download_provider_stats
download_provider_stats(file_path, status, results) ==
    /\ get("provider/stats", file_path, status)
    /\ IF status = "OK"
       THEN fs' = dump(fs, file_path, results) /\ wrote' = {file_path}
       ELSE /\ raise(Raised("Exception",
                            "Downloading provider statistics failed", << >>))
            /\ fs' = fs
            /\ wrote' = {}

\* download_ranking_properties, lines 113-116 and 131-133: the request for
\* the district named anchor; on status OK the walk of the Results starts,
\* any other status raises.  Nothing is written here.
download_ranking_properties(anchor, status) ==
    /\ get("almanac/rankby", ranking_properties_path(anchor), status)
    /\ wrote' = {}
    /\ fs' = fs
    /\ IF status = "OK"
       THEN /\ response' = [anchor |-> anchor, seen |-> FALSE, walk |-> "open"]
            /\ pc' = "results"
            /\ bucket' = 1
            /\ k' = 0
            /\ err' = err
       ELSE /\ response' = [anchor |-> anchor, seen |-> FALSE, walk |-> "none"]
            /\ raise(Raised("Exception",
                            "Downloading provider statistics failed", << >>))
            /\ UNCHANGED << bucket, k >>

\* A changed main_districts: the district list is fetched on every
\* invocation.
main_districts_refetch ==
    /\ pc = "main"
    /\ UNCHANGED << csv_file, args, providers, j, bucket, k, rows, r, prev,
                    first_mention, response >>
    /\ \E status \in Statuses, results \in DistrictLists :
            /\ download_districts(districts_path, status, results)
            /\ IF status = "OK"
               THEN /\ districts' = parse_districts(fs')
                    /\ state_abbreviation_lookup' = build_lookup(districts')
                    /\ for_district(districts', 1)
                    /\ err' = err
               ELSE UNCHANGED << districts, state_abbreviation_lookup, i, fetched >>

\* main, lines 176-186: the district list, fetched when districts.json is
\* absent, then parsed, then the lookup.
main_districts ==
    /\ pc = "main"
    /\ UNCHANGED << csv_file, args, providers, j, bucket, k, rows, r, prev,
                    first_mention, response >>
    /\ IF isfile(fs, districts_path)
       THEN /\ NoGet
            /\ wrote' = {}
            /\ fs' = fs
            /\ districts' = parse_districts(fs)
            /\ state_abbreviation_lookup' = build_lookup(districts')
            /\ for_district(districts', 1)
            /\ err' = err
       ELSE \E status \in Statuses, results \in DistrictLists :
            /\ download_districts(districts_path, status, results)
            /\ IF status = "OK"
               THEN /\ districts' = parse_districts(fs')
                    /\ state_abbreviation_lookup' = build_lookup(districts')
                    /\ for_district(districts', 1)
                    /\ err' = err
               ELSE UNCHANGED << districts, state_abbreviation_lookup, i, fetched >>

\* A changed main_provider_list: the provider list is parsed and the
\* statistics loop entered whether or not --providerStatistics is set.
main_provider_list_ungated ==
    /\ pc = "district"
    /\ UNCHANGED << csv_file, args, districts, state_abbreviation_lookup, i,
                    bucket, k, rows, r, prev, fetched, first_mention, response >>
    /\ LET name == name_of(districts[i])
           path == providers_path(name)
           statistics(f) ==
               /\ providers' = parse_providers_list(f, path)
               /\ for_provider(providers', 1)
       IN  IF isfile(fs, path)
           THEN /\ NoGet
                /\ wrote' = {}
                /\ fs' = fs
                /\ statistics(fs)
                /\ err' = err
           ELSE \E status \in Statuses, results \in ProviderLists :
                /\ download_provider_list(path, status, results)
                /\ IF status = "OK"
                   THEN statistics(fs') /\ err' = err
                   ELSE UNCHANGED << providers, j >>

\* A changed main_provider_list: the provider list is fetched whether or not
\* providers-<D>.json is there.
main_provider_list_refetch ==
    /\ pc = "district"
    /\ UNCHANGED << csv_file, args, districts, state_abbreviation_lookup, i,
                    bucket, k, rows, r, prev, fetched, first_mention, response >>
    /\ LET name == name_of(districts[i])
           path == providers_path(name)
       IN  \E status \in Statuses, results \in ProviderLists :
                /\ download_provider_list(path, status, results)
                /\ IF status = "OK"
                   THEN /\ err' = err
                        /\ IF args.providerStatistics
                           THEN /\ providers' = parse_providers_list(fs', path)
                                /\ for_provider(providers', 1)
                           ELSE /\ providers' = providers
                                /\ j' = j
                                /\ pc' = "ranking"
                   ELSE UNCHANGED << providers, j >>

\* main, lines 189-204: the provider list of the district the loop is at,
\* fetched when providers-<D>.json is absent, and parsed when
\* --providerStatistics is set.
main_provider_list ==
    /\ pc = "district"
    /\ UNCHANGED << csv_file, args, districts, state_abbreviation_lookup, i,
                    bucket, k, rows, r, prev, fetched, first_mention, response >>
    /\ LET name == name_of(districts[i])
           path == providers_path(name)
           statistics(f) ==
               IF args.providerStatistics
               THEN /\ providers' = parse_providers_list(f, path)
                    /\ for_provider(providers', 1)
               ELSE /\ providers' = providers
                    /\ j' = j
                    /\ pc' = "ranking"
       IN  IF isfile(fs, path)
           THEN /\ NoGet
                /\ wrote' = {}
                /\ fs' = fs
                /\ statistics(fs)
                /\ err' = err
           ELSE \E status \in Statuses, results \in ProviderLists :
                /\ download_provider_list(path, status, results)
                /\ IF status = "OK"
                   THEN statistics(fs') /\ err' = err
                   ELSE UNCHANGED << providers, j >>

\* A changed main_provider_stats: the statistics are fetched whether or not
\* stats-<D>-<P>.json is there.
main_provider_stats_refetch ==
    /\ pc = "stats"
    /\ UNCHANGED << csv_file, args, districts, state_abbreviation_lookup, i,
                    providers, bucket, k, rows, r, prev, fetched, first_mention,
                    response >>
    /\ LET name == name_of(districts[i])
           provider_id == providers[j].holdingCompanyNumber
           path == stats_path(name, provider_id)
       IN  \E status \in Statuses, results \in StatsResults :
                /\ download_provider_stats(path, status, results)
                /\ IF status = "OK"
                   THEN for_provider(providers, j + 1) /\ err' = err
                   ELSE j' = j

\* main, lines 205-215: the statistics of the provider the inner loop is at,
\* fetched when stats-<D>-<P>.json is absent.
main_provider_stats ==
    /\ pc = "stats"
    /\ UNCHANGED << csv_file, args, districts, state_abbreviation_lookup, i,
                    providers, bucket, k, rows, r, prev, fetched, first_mention,
                    response >>
    /\ LET name == name_of(districts[i])
           provider_id == providers[j].holdingCompanyNumber
           path == stats_path(name, provider_id)
       IN  IF isfile(fs, path)
           THEN /\ NoGet
                /\ wrote' = {}
                /\ fs' = fs
                /\ for_provider(providers, j + 1)
                /\ err' = err
           ELSE \E status \in Statuses, results \in StatsResults :
                /\ download_provider_stats(path, status, results)
                /\ IF status = "OK"
                   THEN for_provider(providers, j + 1) /\ err' = err
                   ELSE j' = j

\* A changed main_ranking: after the request main goes on to the next
\* district without walking the response.
main_ranking_unfinished ==
    /\ pc = "ranking"
    /\ UNCHANGED << csv_file, args, districts, state_abbreviation_lookup,
                    providers, j, rows, r, prev, first_mention >>
    /\ LET name == name_of(districts[i])
           path == ranking_properties_path(name)
       IN  IF isfile(fs, path)
           THEN /\ NoGet
                /\ wrote' = {}
                /\ fs' = fs
                /\ for_district(districts, i + 1)
                /\ UNCHANGED << bucket, k, err, response >>
           ELSE \E status \in Statuses :
                /\ get("almanac/rankby", path, status)
                /\ wrote' = {}
                /\ fs' = fs
                /\ UNCHANGED << bucket, k, response >>
                /\ IF status = "OK"
                   THEN for_district(districts, i + 1) /\ err' = err
                   ELSE /\ raise(Raised("Exception",
                                   "Downloading provider statistics failed", << >>))
                        /\ UNCHANGED << i, fetched >>

\* A changed main_ranking: the ranking request is issued for every district
\* of the list, whether or not its file is there.
main_ranking_refetch ==
    /\ pc = "ranking"
    /\ UNCHANGED << csv_file, args, districts, state_abbreviation_lookup,
                    providers, j, rows, r, prev, first_mention >>
    /\ \E status \in Statuses :
            /\ download_ranking_properties(name_of(districts[i]), status)
            /\ UNCHANGED << i, fetched >>

\* main, lines 217-224: the ranking request for the district the loop is at,
\* issued when ranking-properties-<D>.json is absent.
main_ranking ==
    /\ pc = "ranking"
    /\ UNCHANGED << csv_file, args, districts, state_abbreviation_lookup,
                    providers, j, rows, r, prev, first_mention >>
    /\ LET name == name_of(districts[i])
           path == ranking_properties_path(name)
       IN  IF isfile(fs, path)
           THEN /\ NoGet
                /\ wrote' = {}
                /\ fs' = fs
                /\ for_district(districts, i + 1)
                /\ UNCHANGED << bucket, k, err, response >>
           ELSE \E status \in Statuses :
                /\ download_ranking_properties(name, status)
                /\ UNCHANGED << i, fetched >>

\* A changed download_ranking_properties_entry: the entry is written whether
\* or not the file is there, so the last mention wins.
download_ranking_properties_entry_overwrite(district) ==
    /\ pc = "results"
    /\ k < MaxBucket
    /\ NoGet
    /\ UNCHANGED << csv_file, args, districts, state_abbreviation_lookup, i,
                    providers, j, bucket, rows, r, prev, fetched >>
    /\ LET state_id == district.stateFips
       IN  IF state_id \in DOMAIN state_abbreviation_lookup
           THEN LET name == district_name(state_abbreviation_lookup[state_id],
                                          district.geographyName)
                    path == ranking_properties_path(name)
                IN  /\ fs' = dump(fs, path, district)
                    /\ wrote' = {path}
                    /\ first_mention' =
                           IF path \in DOMAIN first_mention THEN first_mention
                           ELSE dump(first_mention, path, district)
                    /\ response' = [response EXCEPT !.seen = @ \/ name = response.anchor]
                    /\ k' = k + 1
                    /\ UNCHANGED << pc, err >>
           ELSE /\ raise(Raised("KeyError", "state_abbreviation_lookup", << >>))
                /\ response' = [response EXCEPT !.walk = "ended"]
                /\ wrote' = {}
                /\ UNCHANGED << fs, k, first_mention >>

\* download_ranking_properties, lines 119-130: the next entry of the bucket
\* being walked is written to the file of the district it resolves to, when
\* that file is absent.
download_ranking_properties_entry(district) ==
    /\ pc = "results"
    /\ k < MaxBucket
    /\ NoGet
    /\ UNCHANGED << csv_file, args, districts, state_abbreviation_lookup, i,
                    providers, j, bucket, rows, r, prev, fetched >>
    /\ LET state_id == district.stateFips
       IN  IF state_id \in DOMAIN state_abbreviation_lookup
           THEN LET name == district_name(state_abbreviation_lookup[state_id],
                                          district.geographyName)
                    path == ranking_properties_path(name)
                IN  /\ IF ~isfile(fs, path)
                       THEN fs' = dump(fs, path, district) /\ wrote' = {path}
                       ELSE fs' = fs /\ wrote' = {}
                    /\ first_mention' =
                           IF path \in DOMAIN first_mention THEN first_mention
                           ELSE dump(first_mention, path, district)
                    /\ response' = [response EXCEPT !.seen = @ \/ name = response.anchor]
                    /\ k' = k + 1
                    /\ UNCHANGED << pc, err >>
           ELSE /\ raise(Raised("KeyError", "state_abbreviation_lookup", << >>))
                /\ response' = [response EXCEPT !.walk = "ended"]
                /\ wrote' = {}
                /\ UNCHANGED << fs, k, first_mention >>

\* download_ranking_properties, lines 117-119: the bucket being walked has
\* no further entry; on to the next bucket, or back to main after "All".
download_ranking_properties_end_of_list ==
    /\ pc = "results"
    /\ NoGet
    /\ wrote' = {}
    /\ k' = 0
    /\ IF bucket < Len(RESULT_LISTS)
       THEN bucket' = bucket + 1 /\ pc' = pc /\ response' = response
       ELSE /\ bucket' = bucket
            /\ pc' = "check"
            /\ response' = [response EXCEPT !.walk = "ended"]
    /\ UNCHANGED << fs, csv_file, args, districts, state_abbreviation_lookup, i,
                    providers, j, rows, r, err, prev, fetched, first_mention >>

\* A changed main_ranking_check: when the file is still absent the ranking
\* request is tried again.
main_ranking_check_retry ==
    /\ pc = "check"
    /\ NoGet
    /\ wrote' = {}
    /\ UNCHANGED << fs, csv_file, args, districts, state_abbreviation_lookup,
                    providers, j, bucket, k, rows, r, prev, first_mention,
                    response >>
    /\ LET name == name_of(districts[i])
           path == ranking_properties_path(name)
       IN  IF ~isfile(fs, path)
           THEN /\ pc' = "ranking"
                /\ UNCHANGED << i, fetched, err >>
           ELSE /\ for_district(districts, i + 1)
                /\ err' = err

\* main, lines 225-227: the file of the district the request was for must
\* exist now.
main_ranking_check ==
    /\ pc = "check"
    /\ NoGet
    /\ wrote' = {}
    /\ UNCHANGED << fs, csv_file, args, districts, state_abbreviation_lookup,
                    providers, j, bucket, k, rows, r, prev, first_mention,
                    response >>
    /\ LET name == name_of(districts[i])
           path == ranking_properties_path(name)
       IN  IF ~isfile(fs, path)
           THEN /\ raise(Raised("Exception",
                           "Failed to download ranking properties for {}", name))
                /\ UNCHANGED << i, fetched >>
           ELSE /\ for_district(districts, i + 1)
                /\ err' = err

\* A changed generate_csv_open: summary.csv is opened for appending.
generate_csv_open_append ==
    /\ pc = "generate_csv"
    /\ NoGet
    /\ wrote' = {}
    /\ csv_file' = Append(csv_file, fieldnames)
    /\ UNCHANGED << fs, args, districts, state_abbreviation_lookup, i, providers,
                    j, bucket, k, prev, fetched, first_mention, response >>
    /\ IF isfile(fs, districts_path)
       THEN /\ rows' = sorted(parse_districts(fs))
            /\ r' = 1
            /\ pc' = IF rows' = << >> THEN "done" ELSE "row"
            /\ err' = err
       ELSE /\ raise(Raised("FileNotFoundError", DISTRICTS_FILENAME, << >>))
            /\ UNCHANGED << rows, r >>

\* generate_csv, lines 141-148: summary.csv is truncated, the header is
\* written, the district list is read and sorted.
generate_csv_open ==
    /\ pc = "generate_csv"
    /\ NoGet
    /\ wrote' = {}
    /\ csv_file' = << fieldnames >>
    /\ UNCHANGED << fs, args, districts, state_abbreviation_lookup, i, providers,
                    j, bucket, k, prev, fetched, first_mention, response >>
    /\ IF isfile(fs, districts_path)
       THEN /\ rows' = sorted(parse_districts(fs))
            /\ r' = 1
            /\ pc' = IF rows' = << >> THEN "done" ELSE "row"
            /\ err' = err
       ELSE /\ raise(Raised("FileNotFoundError", DISTRICTS_FILENAME, << >>))
            /\ UNCHANGED << rows, r >>

\* A changed generate_csv_row: a counter the ranking file lacks is written
\* as 0 (properties.get(field, 0)).
generate_csv_row_default_counter ==
    /\ pc = "row"
    /\ NoGet
    /\ wrote' = {}
    /\ UNCHANGED << fs, args, districts, state_abbreviation_lookup, i, providers,
                    j, bucket, k, rows, prev, fetched, first_mention, response >>
    /\ LET name == name_of(rows[r])
           path == ranking_properties_path(name)
           properties == [f \in AllCounters |->
                             IF f \in DOMAIN fs[path] THEN fs[path][f] ELSE 0]
       IN  IF ~isfile(fs, path)
           THEN /\ raise(Raised("FileNotFoundError",
                                RANKING_PROPERTIES_FILENAME_PATTERN, name))
                /\ UNCHANGED << csv_file, r >>
           ELSE /\ csv_file' = Append(csv_file, writerow(row_dict(name, properties)))
                /\ r' = r + 1
                /\ pc' = IF r' > Len(rows) THEN "done" ELSE "row"
                /\ err' = err

\* A changed generate_csv_row: a district without a ranking file gets a row
\* of zeros.
generate_csv_row_blank ==
    /\ pc = "row"
    /\ NoGet
    /\ wrote' = {}
    /\ UNCHANGED << fs, args, districts, state_abbreviation_lookup, i, providers,
                    j, bucket, k, rows, prev, fetched, first_mention, response >>
    /\ LET name == name_of(rows[r])
           path == ranking_properties_path(name)
           properties == IF isfile(fs, path) THEN fs[path]
                         ELSE [f \in AllCounters |-> 0]
       IN  IF ~(AllCounters \subseteq DOMAIN properties)
           THEN /\ raise(Raised("KeyError", "properties", name))
                /\ UNCHANGED << csv_file, r >>
           ELSE /\ csv_file' = Append(csv_file, writerow(row_dict(name, properties)))
                /\ r' = r + 1
                /\ pc' = IF r' > Len(rows) THEN "done" ELSE "row"
                /\ err' = err

\* generate_csv, lines 148-161: the row of the next district in sorted
\* order, from its ranking file.
generate_csv_row ==
    /\ pc = "row"
    /\ NoGet
    /\ wrote' = {}
    /\ UNCHANGED << fs, args, districts, state_abbreviation_lookup, i, providers,
                    j, bucket, k, rows, prev, fetched, first_mention,
                    response >>
    /\ LET name == name_of(rows[r])
           path == ranking_properties_path(name)
       IN  IF ~isfile(fs, path)
           THEN /\ raise(Raised("FileNotFoundError",
                                RANKING_PROPERTIES_FILENAME_PATTERN, name))
                /\ UNCHANGED << csv_file, r >>
           ELSE IF ~(AllCounters \subseteq DOMAIN fs[path])
           THEN /\ raise(Raised("KeyError", "properties", name))
                /\ UNCHANGED << csv_file, r >>
           ELSE /\ csv_file' = Append(csv_file, writerow(row_dict(name, fs[path])))
                /\ r' = r + 1
                /\ pc' = IF r' > Len(rows) THEN "done" ELSE "row"
                /\ err' = err

\* generate_csv(data_version_dir) called on its own, between invocations of
\* the program, on whatever they left in the directory.
call_generate_csv ==
    /\ ~Running
    /\ pc' = "generate_csv"
    /\ prev' = NoPrev
    /\ args' = [providerStatistics |-> FALSE]
    /\ districts' = << >>
    /\ state_abbreviation_lookup' = << >>
    /\ i' = 1
    /\ providers' = << >>
    /\ j' = 1
    /\ bucket' = 1
    /\ k' = 0
    /\ rows' = << >>
    /\ r' = 1
    /\ err' = NoError
    /\ net' = NoRequest
    /\ trace' = start_trace(fs)
    /\ wrote' = {}
    /\ response' = NoResponse
    /\ fetched' = FALSE
    /\ UNCHANGED << fs, csv_file, first_mention >>

Next ==
    \/ \E providerStatistics \in BOOLEAN : Invoke(providerStatistics)
    \/ main_districts
    \/ main_provider_list
    \/ main_provider_stats
    \/ main_ranking
    \/ \E district \in RankingEntries : download_ranking_properties_entry(district)
    \/ download_ranking_properties_end_of_list
    \/ main_ranking_check
    \/ generate_csv_open
    \/ generate_csv_row

\* The invocations of the program.
Spec == Init /\ [][Next]_vars

\* The invocations of the program, each with its trace.
SpecTrace == InitTrace /\ [][Next]_vars

\* A step of a running invocation.
Step ==
    \/ main_districts
    \/ main_provider_list
    \/ main_provider_stats
    \/ main_ranking
    \/ \E district \in RankingEntries : download_ranking_properties_entry(district)
    \/ download_ranking_properties_end_of_list
    \/ main_ranking_check
    \/ generate_csv_open
    \/ generate_csv_row

\* The invocations of the program, where a running invocation always takes
\* its next step: the interpreter does not stop and every requests.get
\* returns.
SpecFair == Spec /\ WF_vars(Step)

NextCsv ==
    \/ Next
    \/ call_generate_csv

\* The invocations of the program and, between them, calls of generate_csv.
SpecCsv == Init /\ [][NextCsv]_vars

\* -------------------------------------------------------------- properties

\* The message of the exception main raises when the file of the district a
\* ranking request was for is still absent after the request.
AnchorError(name) ==
    Raised("Exception", "Failed to download ranking properties for {}", name)

LookupError == Raised("KeyError", "state_abbreviation_lookup", << >>)

\* The order of strings by code point, stated without recursion: a is before
\* b when, at the first place they differ, a has ended or holds the smaller
\* code point.
LexLess(a, b) ==
    \E n \in 1..(Len(b)) :
        /\ n <= Len(a) + 1
        /\ \A m \in 1..(n - 1) : a[m] = b[m]
        /\ (n = Len(a) + 1 \/ a[n] < b[n])

\* (stateAbbreviation, geographyName) of c is not after that of d.
PairLeq(c, d) ==
    \/ LexLess(c.stateAbbreviation, d.stateAbbreviation)
    \/ /\ c.stateAbbreviation = d.stateAbbreviation
       /\ \/ c.geographyName = d.geographyName
          \/ LexLess(c.geographyName, d.geographyName)

\* The one-to-one assignments of n rows to n list entries.
Bijections(n) ==
    { p \in [1..n -> 1..n] : \A a, b \in 1..n : p[a] = p[b] => a = b }

\* The counters of a ranking file, in the column order of summary.csv.
StoredCounters(path) ==
    [c \in DOMAIN RANKING_PROPERTIES_JSON |-> fs[path][RANKING_PROPERTIES_JSON[c]]]

\* C1: when the previous invocation finished its fetch phase and this one
\* runs with the same --providerStatistics setting, no step of this
\* invocation issues a request of any kind.
C1_FetchIdempotent ==
    (prev.fetched /\ prev.providerStatistics = args.providerStatistics)
        => net = NoRequest

\* A second invocation with --providerStatistics, after a first one that
\* finished its fetch phase with it, has gone through two districts and their
\* providers and reached generate_csv.
C1_Witness ==
    /\ prev.fetched
    /\ prev.providerStatistics
    /\ args.providerStatistics
    /\ pc = "generate_csv"
    /\ Len(districts) >= 2
    /\ providers # << >>

\* C2: every request an invocation issues, whatever cache the earlier
\* invocations left, is for a path that was not a file at the moment of the
\* request.
C2_OnlyAbsentFetched ==
    net.endpoint # "none" => ~net.cached

\* An invocation that follows an aborted one issues a ranking request for
\* its second district, having found districts.json in place.
C2_Witness ==
    /\ prev.ran
    /\ ~prev.fetched
    /\ net.endpoint = "almanac/rankby"
    /\ net.status = "OK"
    /\ i = 2
    /\ wrote = {}

\* C3: a step never removes or changes a cache file that exists, and every
\* path a step opens for writing was not a file before the step.
C3_CacheImmutable ==
    [][ /\ \A p \in DOMAIN fs : p \in DOMAIN fs' /\ fs'[p] = fs[p]
        /\ \A p \in wrote' : p \notin DOMAIN fs /\ p \in DOMAIN fs' ]_vars

\* A later invocation writes a ranking file into a cache that already holds
\* the district list, a provider list and another ranking file.
C3_Witness ==
    /\ prev.ran
    /\ \E p \in wrote : p.pattern = RANKING_PROPERTIES_FILENAME_PATTERN
    /\ \E p \in DOMAIN fs \ wrote : p.pattern = RANKING_PROPERTIES_FILENAME_PATTERN
    /\ \E p \in DOMAIN fs : p.pattern = PROVIDERS_FILENAME_PATTERN

\* C4: the content of every ranking file is the first entry ever processed
\* for its path, over all buckets, requests and invocations.
C4_FirstWriterWins ==
    \A p \in DOMAIN first_mention : isfile(fs, p) /\ fs[p] = first_mention[p]

\* The walk of a response has just processed, in the bucket "All", an entry
\* for a district whose file was there, and wrote nothing.
C4_Witness ==
    /\ pc = "results"
    /\ bucket = Len(RESULT_LISTS)
    /\ k >= 1
    /\ wrote = {}
    /\ prev.ran

\* C5: a step that issues a request whose response has a status other than
\* OK ends the invocation with an exception and opens no file for writing;
\* the cache and summary.csv are as before.
C5_FatalPropagation ==
    [][ (net'.endpoint # "none" /\ net'.status # "OK")
            => /\ pc' = "failed"
               /\ err'.type = "Exception"
               /\ wrote' = {}
               /\ fs' = fs
               /\ csv_file' = csv_file ]_vars

\* A ranking request was answered with another status while the cache held
\* files, and the invocation has failed.
C5_Witness ==
    /\ net.endpoint = "almanac/rankby"
    /\ net.status = "Bad Request"
    /\ pc = "failed"
    /\ \E p \in DOMAIN fs : p.pattern = PROVIDERS_FILENAME_PATTERN

\* C6: once the walk of an OK ranking response is over and no entry
\* resolved to the district the request was for, the invocation is at main's
\* check or has failed with the error that names that district.
C6_AnchorErrorReported ==
    (response.walk = "ended" /\ ~response.seen)
        => \/ pc = "check"
           \/ pc = "failed" /\ err = AnchorError(response.anchor)

\* What the code does guarantee for C6: in that case the invocation is at
\* main's check, or has failed with the error that names the district, or has
\* failed during the walk with the KeyError of line 122 on an entry whose
\* stateFips is not in the lookup; it never goes on to the next district.
C6_AnchorNeverSkipped ==
    (response.walk = "ended" /\ ~response.seen)
        => \/ pc = "check"
           \/ pc = "failed" /\ err \in { AnchorError(response.anchor), LookupError }

\* The walk went through all four buckets without an entry for the district
\* the request was for, and the invocation failed naming that district.
C6_Witness ==
    /\ response.walk = "ended"
    /\ ~response.seen
    /\ pc = "failed"
    /\ err = AnchorError(name_of(districts[i]))
    /\ wrote = {}
    /\ bucket = Len(RESULT_LISTS)

\* C7: when an invocation has finished fetching and compiling without an
\* exception, every district of the list has a ranking file, and the file
\* holds all nine counters.
C7_RankingComplete ==
    pc = "done"
        => \A n \in DOMAIN fs[districts_path] :
              LET path == ranking_properties_path(name_of(fs[districts_path][n]))
              IN  isfile(fs, path) /\ AllCounters \subseteq DOMAIN fs[path]

\* An invocation is done for a list of two different districts.
C7_Witness ==
    /\ pc = "done"
    /\ fetched
    /\ Len(districts) = 2
    /\ name_of(districts[1]) # name_of(districts[2])

\* C8: generate_csv never finishes without an exception while the ranking
\* file of a district of the list is absent, and every data row of
\* summary.csv is for a district whose ranking file exists and holds that
\* file's nine counters.
C8_MissingCacheFails ==
    /\ pc = "done"
          => \A n \in DOMAIN fs[districts_path] :
                isfile(fs, ranking_properties_path(name_of(fs[districts_path][n])))
    /\ \A n \in 2..Len(csv_file) :
          LET path == ranking_properties_path(csv_file[n][1])
          IN  /\ isfile(fs, path)
              /\ AllCounters \subseteq DOMAIN fs[path]
              /\ \A c \in DOMAIN RANKING_PROPERTIES_JSON :
                    csv_file[n][c + 1] = StoredCounters(path)[c]

\* generate_csv wrote the row of one district and then failed on the absent
\* ranking file of the next.
C8_Witness ==
    /\ pc = "failed"
    /\ err.type = "FileNotFoundError"
    /\ err.message = RANKING_PROPERTIES_FILENAME_PATTERN
    /\ Len(csv_file) = 2
    /\ r = 2

\* C9: when generate_csv has finished, the data rows of summary.csv are the
\* districts of the list, one row each, in ascending order of
\* (stateAbbreviation, geographyName), strings compared by code point.
C9_SummarySorted ==
    pc = "done"
        => LET ds == fs[districts_path]
               n == Len(ds)
           IN  /\ Len(csv_file) = n + 1
               /\ \E p \in Bijections(n) :
                     /\ \A m \in 1..n : csv_file[m + 1][1] = name_of(ds[p[m]])
                     /\ \A m \in 1..(n - 1) : PairLeq(ds[p[m]], ds[p[m + 1]])

\* The list is AL-2, AL-10 and summary.csv has AL-10 before AL-2.
C9_Witness ==
    /\ pc = "done"
    /\ Len(fs[districts_path]) = 2
    /\ name_of(fs[districts_path][1]) = AL \o Dash \o << 50 >>
    /\ name_of(fs[districts_path][2]) = AL \o Dash \o << 49, 48 >>
    /\ Len(csv_file) = 3
    /\ csv_file[2][1] = AL \o Dash \o << 49, 48 >>
    /\ csv_file[3][1] = AL \o Dash \o << 50 >>

\* C10: when generate_csv has finished, summary.csv is the header followed by
\* exactly one row per entry of the district list, each row the name of its
\* district and the nine counters of that district's ranking file, as
\* stored.
C10_SummaryContent ==
    pc = "done"
        => LET ds == fs[districts_path]
               n == Len(ds)
           IN  /\ Len(csv_file) = n + 1
               /\ csv_file[1] = fieldnames
               /\ \E p \in Bijections(n) :
                     \A m \in 1..n :
                        LET name == name_of(ds[p[m]])
                        IN  csv_file[m + 1] =
                              << name >> \o StoredCounters(ranking_properties_path(name))

\* summary.csv is complete for two different districts.
C10_Witness ==
    /\ pc = "done"
    /\ Len(csv_file) = 3
    /\ csv_file[2][1] # csv_file[3][1]
    /\ csv_file[2][2] = 11

\* The ranking requests the invocation has issued so far.
RankingCalls ==
    { n \in DOMAIN trace.requests : trace.requests[n].endpoint = "almanac/rankby" }

\* The districts of the list whose ranking file was absent when the
\* invocation started.
AbsentAtStart ==
    { name_of(districts[n]) : n \in DOMAIN districts } \
        { p.arg : p \in { q \in trace.cache :
                            q.pattern = RANKING_PROPERTIES_FILENAME_PATTERN } }

\* C11: when the traversal reaches the ranking step of a district, the
\* ranking request for that district is issued if and only if its ranking
\* file is absent, and no ranking request is issued anywhere else; and an
\* invocation never issues more ranking requests than there are districts
\* whose ranking file was absent when it started.
C11_AnchorSkipping ==
    /\ [](Cardinality(RankingCalls) <= Cardinality(AbsentAtStart))
    /\ [][ /\ pc = "ranking" =>
                (net'.endpoint = "almanac/rankby"
                    <=> ~isfile(fs, ranking_properties_path(name_of(districts[i]))))
           /\ net'.endpoint = "almanac/rankby" =>
                /\ pc = "ranking"
                /\ net'.path = ranking_properties_path(name_of(districts[i])) ]_vars

\* Both districts of the list lacked a ranking file when the invocation
\* started, the response to the first one's request brought the second one's
\* file too, and the fetch phase ended with one ranking request issued.
C11_Witness ==
    /\ trace.on
    /\ fetched
    /\ Len(districts) = 2
    /\ Cardinality(AbsentAtStart) = 2
    /\ Cardinality(RankingCalls) = 1

\* The place of an endpoint in the order of the steps for one district.
StepRank(endpoint) ==
    CASE endpoint = "geography/congdistrict" -> 0
      [] endpoint = "provider/providers" -> 1
      [] endpoint = "provider/stats" -> 2
      [] endpoint = "almanac/rankby" -> 3

\* Request a comes no later than request b in the traversal: an earlier
\* district, or the same district and no later a step.
NotAfter(a, b) ==
    \/ a.index < b.index
    \/ a.index = b.index /\ StepRank(a.endpoint) <= StepRank(b.endpoint)

\* path is a cache path of the district named name.
PathOf(path, name) ==
    /\ Len(path.arg) >= Len(name)
    /\ SubSeq(path.arg, 1, Len(name)) = name
    /\ path.pattern # DISTRICTS_FILENAME

\* C12: the requests of an invocation are issued in traversal order: the
\* district-list request, if any, first; then district by district in list
\* order, for each district its provider list, then its provider
\* statistics, then its ranking.  Every other request is issued with the
\* district list in the cache, is for the district the traversal is at, and
\* is issued only when the ranking file of every earlier district of the
\* list exists and no ranking response is being walked.
C12_TraversalOrder ==
    /\ [](\A a, b \in DOMAIN trace.requests :
              a < b => NotAfter(trace.requests[a], trace.requests[b]))
    /\ [][ net'.endpoint # "none" =>
              LET q == trace'.requests[Len(trace'.requests)]
              IN  /\ q.endpoint = net'.endpoint /\ q.path = net'.path
                  /\ IF q.endpoint = "geography/congdistrict"
                     THEN q.index = 0 /\ trace.requests = << >>
                     ELSE /\ isfile(fs, districts_path)
                          /\ districts = fs[districts_path]
                          /\ q.index \in DOMAIN districts
                          /\ PathOf(q.path, name_of(districts[q.index]))
                          /\ pc # "results"
                          /\ \A n \in 1..(q.index - 1) :
                                isfile(fs, ranking_properties_path(
                                               name_of(districts[n]))) ]_vars

\* An invocation with --providerStatistics on an empty cache has issued all
\* seven requests for a list of two districts: the list, and for each
\* district its provider list, statistics and ranking.
C12_Witness ==
    /\ trace.on
    /\ trace.cache = {}
    /\ fetched
    /\ Len(trace.requests) = 7
    /\ trace.requests[7].endpoint = "almanac/rankby"
    /\ trace.requests[7].index = 2

\* Where an invocation stands during its fetch phase.
FetchPhase == { "main", "district", "stats", "ranking", "results", "check" }

\* C13: an invocation has failed exactly when an exception was raised.  The
\* step that raises it writes no cache file and leaves the cache as it was;
\* no step of the fetch phase, raising or not, touches summary.csv; and the
\* only step after a failure is the start of a new invocation, which issues
\* no request and leaves the cache and summary.csv as the failed one left
\* them.
C13_ErrorsTerminal ==
    /\ [](err # NoError <=> pc = "failed")
    /\ [][ /\ (err = NoError /\ err' # NoError) =>
                /\ pc' = "failed"
                /\ wrote' = {}
                /\ fs' = fs
           /\ pc \in FetchPhase => csv_file' = csv_file
           /\ err # NoError =>
                /\ pc' = "main"
                /\ err' = NoError
                /\ net' = NoRequest
                /\ wrote' = {}
                /\ fs' = fs
                /\ csv_file' = csv_file ]_vars

\* The invocation failed at its second district on the anchor check, with
\* the files of the first district in the cache and no summary.csv.
C13_Witness ==
    /\ pc = "failed"
    /\ Len(districts) = 2
    /\ i = 2
    /\ err = AnchorError(name_of(districts[2]))
    /\ isfile(fs, providers_path(name_of(districts[1])))
    /\ isfile(fs, ranking_properties_path(name_of(districts[1])))
    /\ csv_file = << >>

\* The providers in the cached provider list of the district named name.
CachedProviders(name) == fs[providers_path(name)].allProviders

\* C14: without --providerStatistics an invocation never enters the
\* statistics loop, never parses a provider list (providers stays empty),
\* never issues a statistics request and never writes a stats file.  With
\* it, at the turn of each provider of the district's cached provider list
\* the statistics request is issued if and only if that provider's stats
\* file is absent, no statistics request is issued anywhere else, and when
\* the district's ranking step is reached every provider of its cached list
\* has a stats file.
C14_FlagGating ==
    /\ [](~args.providerStatistics =>
              /\ pc # "stats"
              /\ providers = << >>
              /\ net.endpoint # "provider/stats"
              /\ \A p \in wrote : p.pattern # STATS_FILENAME_PATTERN)
    /\ []((args.providerStatistics /\ pc \in { "ranking", "results", "check" }) =>
              LET name == name_of(districts[i])
              IN  \A n \in DOMAIN CachedProviders(name) :
                     isfile(fs, stats_path(name,
                                   CachedProviders(name)[n].holdingCompanyNumber)))
    /\ [][ /\ pc = "stats" =>
                LET name == name_of(districts[i])
                IN  /\ args.providerStatistics
                    /\ providers = CachedProviders(name)
                    /\ j \in DOMAIN providers
                    /\ net'.endpoint = "provider/stats"
                         <=> ~isfile(fs, stats_path(name,
                                           providers[j].holdingCompanyNumber))
           /\ net'.endpoint = "provider/stats" =>
                /\ pc = "stats"
                /\ net'.path = stats_path(name_of(districts[i]),
                                          providers[j].holdingCompanyNumber) ]_vars

\* With --providerStatistics the second district's statistics request has
\* just been answered, the first district's stats file being in the cache.
C14_Witness ==
    /\ args.providerStatistics
    /\ Len(districts) = 2
    /\ i = 2
    /\ pc = "ranking"
    /\ net.endpoint = "provider/stats"
    /\ net.status = "OK"
    /\ name_of(districts[1]) # name_of(districts[2])
    /\ \E p \in DOMAIN fs \ wrote : p.pattern = STATS_FILENAME_PATTERN

\* C15: every invocation that has started ends, done or failed.  It is done
\* only with no exception raised, after the traversal of all the districts
\* and with summary.csv compiled, a row for every district of the list; it
\* has failed exactly when an exception was raised, and the step that raises
\* the first exception is the one that ends it.
C15_Termination ==
    /\ (pc = "main") ~> (pc \in { "done", "failed" })
    /\ [](pc = "done" =>
              /\ err = NoError
              /\ fetched
              /\ i = Len(districts) + 1
              /\ districts = fs[districts_path]
              /\ Len(csv_file) = Len(districts) + 1)
    /\ [](pc = "failed" <=> err # NoError)
    /\ [][ err' # NoError => (err = NoError /\ Running /\ pc' = "failed") ]_vars

\* An invocation for two districts is done without an exception, after one
\* that failed.
C15_Witness ==
    /\ pc = "done"
    /\ err = NoError
    /\ prev.ran
    /\ ~prev.fetched
    /\ Len(districts) = 2

MissingRankingFile ==
    /\ pc = "failed"
    /\ err.type = "FileNotFoundError"
    /\ err.message = RANKING_PROPERTIES_FILENAME_PATTERN

\* The places in the district list of the districts that sort strictly
\* before the district named name.
StrictlyBefore(name) ==
    LET ds == fs[districts_path]
    IN  { n \in DOMAIN ds :
            \E d \in DOMAIN ds :
                /\ name_of(ds[d]) = name
                /\ PairLeq(ds[n], ds[d])
                /\ ~PairLeq(ds[d], ds[n]) }

\* C17: the first step of generate_csv leaves summary.csv holding the header
\* alone, whatever it held before; and when generate_csv has failed on the
\* absent ranking file of a district, summary.csv holds the header and
\* exactly the rows of the districts of the list that sort strictly before
\* that district, each with the counters of its ranking file.
C17_PartialSummary ==
    /\ [](MissingRankingFile =>
              LET ds == fs[districts_path]
                  before == StrictlyBefore(err.name)
              IN  /\ ~isfile(fs, ranking_properties_path(err.name))
                  /\ csv_file[1] = fieldnames
                  /\ Len(csv_file) = 1 + Cardinality(before)
                  /\ \A m \in 2..Len(csv_file) :
                        /\ Cardinality({ q \in 2..Len(csv_file) :
                                           csv_file[q][1] = csv_file[m][1] })
                             = Cardinality({ n \in before :
                                               name_of(ds[n]) = csv_file[m][1] })
                        /\ csv_file[m] =
                             << csv_file[m][1] >> \o
                               StoredCounters(ranking_properties_path(csv_file[m][1])))
    /\ [][ pc = "generate_csv" => csv_file' = << fieldnames >> ]_vars

\* The list is AL-2, AL-10; generate_csv wrote the row of AL-10 and failed on
\* the absent ranking file of AL-2.
C17_Witness ==
    /\ MissingRankingFile
    /\ err.name = AL \o Dash \o << 50 >>
    /\ Len(fs[districts_path]) = 2
    /\ Len(csv_file) = 2
    /\ csv_file[2][1] = AL \o Dash \o << 49, 48 >>

====
